---- MODULE Spec2Model ----
(***************************************************************************)
(* The authentication core of the contacts backend: password hashing, the  *)
(* three scoped JWT lanes (access, refresh, email verification), the user  *)
(* table, the redis identity cache and the /auth routes that drive them.   *)
(* Time is the wall clock in whole seconds, the resolution at which        *)
(* python-jose writes iat/exp into a token and compares exp on decode.     *)
(***************************************************************************)
EXTENDS Integers, Sequences, FiniteSets, TLC

\* ------------------------------------------------------------------ inputs
Emails == {"a@x.com", "b@x.com"}
\* The one email that signs up where a single user is looked at.
CacheUsers == {"a@x.com"}
SignupPasswords == {"pw123456"}
LoginPasswords == {"pw123456", "hunter22"}
Usernames == {"alice"}
AvatarUrls == {"cloudinary"}
Salts == {"salt1"}
\* The server processes that serve requests side by side.
Workers == {"w1", "w2"}

\* ---------------------------------------------------------------- constants
SECRET_KEY == "settings.secret_key"
ACCESS_TOKEN_DEFAULT == 900
REFRESH_TOKEN_DEFAULT == 604800
EMAIL_TOKEN_LIFETIME == 259200
CACHE_TTL == 900

\* ------------------------------------------------------------------- bounds
MaxMails == 2
MaxIssued == 2
MaxMinted == 1
MaxRaceIssued == 3
MaxContacts == 2

VARIABLES
    users,    \* the users table: a sequence of rows, id = position
    now,      \* datetime.utcnow() in whole seconds
    nmail,    \* how many send_email tasks have been scheduled
    tasks,    \* BackgroundTasks: pending send_email calls per recipient
    sent,     \* verification tokens delivered by fm.send_message
    issued,   \* history: the token pairs returned by login / refresh_token
    cache,    \* redis: "user:<email>" -> pickled user and expiry
    minted,   \* tokens made by direct calls of the token codec
    plain,    \* history: the password each email was signed up with
    inflight, \* signup requests past their existence check, per worker
    reading,  \* refresh requests past the read of their user row, per worker
    resp,     \* the last request and its response
    contacts, \* the contacts table: a set of rows
    contact_seq, \* the sequence behind contacts.id
    result    \* the last contact operation and what it returned

vars ==
    <<users, now, nmail, tasks, sent, issued, cache, minted, plain, inflight,
      reading, resp, contacts, contact_seq, result>>

\* --------------------------------------------------------------- null values
\* None where a token is expected (User.refresh_token, absent response field).
NoToken == [sub |-> "", iat |-> 0, exp |-> 0, scope |-> "", sig |-> ""]

\* None where a password hash is expected.
NoHash == [alg |-> "", salt |-> "", digest |-> <<"", "">>]

\* None where a user row is expected.
NoUser ==
    [id |-> 0, username |-> "", email |-> "", password |-> NoHash,
     confirmed |-> FALSE, refresh_token |-> NoToken, avatar |-> ""]

\* redis GET answering nil.
NoEntry ==
    [present |-> FALSE, user |-> NoUser, volatile |-> FALSE, expire_at |-> 0,
     read_at |-> 0]

\* Optional[float] expires_delta.
NoDelta == [some |-> FALSE, v |-> 0]

\* A worker serving no refresh. superseded remembers whether a rotation that
\* was given the same token had been committed when the row was read.
NoRead == [token |-> NoToken, email |-> "", stored |-> NoToken, superseded |-> FALSE]

\* A worker serving no signup.
NoRequest == [email |-> "", username |-> "", password |-> "", hash |-> NoHash]

Delta(x) == [some |-> TRUE, v |-> x]

\* Python truthiness of an Optional[float]: None and 0 are falsy.
Truthy(d) == d.some /\ d.v # 0

\* Mutant: the password comes back as it went in.
get_password_hash_plain(password, salt) ==
    [alg |-> "plain", salt |-> salt, digest |-> <<salt, password>>]

\* ------------------------------------------------------- credential hasher
get_password_hash(password, salt) ==
    [alg |-> "bcrypt", salt |-> salt, digest |-> <<salt, password>>]

verify_password(plain_password, hashed_password) ==
    hashed_password.digest = <<hashed_password.salt, plain_password>>

\* -------------------------------------------------------------- token codec
\* jose.jwt.encode: HS256 over the claims is a function of claims and key;
\* datetimes are written as whole seconds.
jwt_encode(sub, iat, exp, scope, key) ==
    [sub |-> sub, iat |-> iat, exp |-> exp, scope |-> scope, sig |-> key]

\* jose.jwt.decode: JWTError when the token is undecodable, when the signature
\* is not the key's, or when exp < now (jose's _validate_exp); else the payload.
jwt_decode(token, key, t) ==
    IF token.sig # key THEN [ok |-> FALSE, payload |-> NoToken]
    ELSE IF token.exp < t THEN [ok |-> FALSE, payload |-> NoToken]
    ELSE [ok |-> TRUE, payload |-> token]

create_access_token(sub, expires_delta, t) ==
    LET expire == IF Truthy(expires_delta) THEN t + expires_delta.v
                  ELSE t + ACCESS_TOKEN_DEFAULT
    IN  jwt_encode(sub, t, expire, "access_token", SECRET_KEY)

create_refresh_token(sub, expires_delta, t) ==
    LET expire == IF Truthy(expires_delta) THEN t + expires_delta.v
                  ELSE t + REFRESH_TOKEN_DEFAULT
    IN  jwt_encode(sub, t, expire, "refresh_token", SECRET_KEY)

\* Mutant: the lifetime of the refresh token used for the verification token.
create_email_token_seven_days(sub, t) ==
    jwt_encode(sub, t, t + REFRESH_TOKEN_DEFAULT, "email_token", SECRET_KEY)

create_email_token(sub, t) ==
    jwt_encode(sub, t, t + EMAIL_TOKEN_LIFETIME, "email_token", SECRET_KEY)

\* A decoder's outcome: the subject, or the HTTPException it raises.
Decoded(email) == [ok |-> TRUE, email |-> email, status |-> 200, detail |-> ""]

Raised(status, detail) ==
    [ok |-> FALSE, email |-> "", status |-> status, detail |-> detail]

\* The try block of get_current_user.
get_current_user_decode(token, t) ==
    LET d == jwt_decode(token, SECRET_KEY, t) IN
    IF ~d.ok THEN Raised(401, "Could not validate credentials")
    ELSE IF d.payload.scope = "access_token"
         THEN IF d.payload.sub = ""
              THEN Raised(401, "Could not validate credentials")
              ELSE Decoded(d.payload.sub)
         ELSE Raised(401, "Could not validate credentials")

\* Mutant: the scope comparison left out.
decode_refresh_token_any_scope(refresh_token_, t) ==
    LET d == jwt_decode(refresh_token_, SECRET_KEY, t) IN
    IF ~d.ok THEN Raised(401, "Could not validate credentials")
    ELSE Decoded(d.payload.sub)

decode_refresh_token(refresh_token_, t) ==
    LET d == jwt_decode(refresh_token_, SECRET_KEY, t) IN
    IF ~d.ok THEN Raised(401, "Could not validate credentials")
    ELSE IF d.payload.scope = "refresh_token"
         THEN Decoded(d.payload.sub)
         ELSE Raised(401, "Invalid scope for token")

get_email_from_token(token, t) ==
    LET d == jwt_decode(token, SECRET_KEY, t) IN
    IF ~d.ok THEN Raised(422, "Invalid token for email verification")
    ELSE IF d.payload.scope = "email_token"
         THEN Decoded(d.payload.sub)
         ELSE Raised(401, "Invalid scope to token")

\* ---------------------------------------------------------- user repository
Min(S) == CHOOSE x \in S : \A y \in S : x <= y

\* db.query(User).filter_by(email=email).first(): the position of the first
\* row with that email, 0 for None.
get_user_by_email(email, db) ==
    LET hits == {i \in 1..Len(db) : db[i].email = email} IN
    IF hits = {} THEN 0 ELSE Min(hits)

\* Gravatar(email).get_image()
gravatar(email) == "gravatar"

\* The column defaults of a new User row.
NewUser(id, username, email, password, avatar) ==
    [id |-> id, username |-> username, email |-> email, password |-> password,
     confirmed |-> FALSE, refresh_token |-> NoToken, avatar |-> avatar]

\* create_user: add the row and commit; the table after it.
create_user(username, email, password, db) ==
    Append(db, NewUser(Len(db) + 1, username, email, password, gravatar(email)))

\* Mutant: the assignment never reaches the table.
update_token_not_saved(i, refresh_token_, db) == db

\* Mutant: the token assigned to every row of the table.
update_token_every_row(i, refresh_token_, db) ==
    [j \in 1..Len(db) |-> [db[j] EXCEPT !.refresh_token = refresh_token_]]

\* update_token: user.refresh_token = refresh_token; db.commit()
update_token(i, refresh_token_, db) ==
    [db EXCEPT ![i].refresh_token = refresh_token_]

\* Mutant: the flag set on every row, not on the row of that email.
repository_confirmed_email_all(email, db) ==
    [i \in 1..Len(db) |-> [db[i] EXCEPT !.confirmed = TRUE]]

\* repository confirmed_email: user.confirmed = True; db.commit()
repository_confirmed_email(email, db) ==
    LET i == get_user_by_email(email, db) IN
    [db EXCEPT ![i].confirmed = TRUE]

\* Mutant: the row written back from a fresh User object.
repository_update_avatar_fresh_row(email, url, db) ==
    LET i == get_user_by_email(email, db) IN
    [db EXCEPT ![i] = NewUser(db[i].id, db[i].username, db[i].email,
                              db[i].password, url)]

\* update_avatar: user.avatar = url; db.commit()
repository_update_avatar(email, url, db) ==
    LET i == get_user_by_email(email, db) IN
    [db EXCEPT ![i].avatar = url]

\* ------------------------------------------------------------------- redis
\* r.get(key): nil once the key's time to live has run out; a key that was
\* never given a time to live stays.
r_get(email, t) ==
    IF cache[email].present
       /\ (cache[email].volatile => t < cache[email].expire_at)
    THEN cache[email] ELSE NoEntry

\* r.set(key, pickle.dumps(user)): the key with that value and no time to
\* live; read_at remembers when the row was read from the table.
r_set(user, t) ==
    [present |-> TRUE, user |-> user, volatile |-> FALSE, expire_at |-> 0,
     read_at |-> t]

\* r.expire(key, 900)
r_expire(entry, t) ==
    [entry EXCEPT !.volatile = TRUE, !.expire_at = t + CACHE_TTL]

\* --------------------------------------------------------------- responses
Response(op, email, password, token, status, detail) ==
    [op |-> op, email |-> email, password |-> password, token |-> token,
     at |-> now, status |-> status, detail |-> detail,
     access_token |-> NoToken, refresh_token |-> NoToken,
     token_type |-> "", user |-> NoUser]

TokenResponse(op, email, password, token, access, refresh) ==
    [op |-> op, email |-> email, password |-> password, token |-> token,
     at |-> now, status |-> 200, detail |-> "",
     access_token |-> access, refresh_token |-> refresh,
     token_type |-> "bearer", user |-> NoUser]

UserResponse(op, email, password, token, status, user) ==
    [op |-> op, email |-> email, password |-> password, token |-> token,
     at |-> now, status |-> status, detail |-> "",
     access_token |-> NoToken, refresh_token |-> NoToken,
     token_type |-> "", user |-> user]

\* History: one token pair handed out, the refresh token presented for it
\* (none for login), the stored refresh token it overwrote, and whether its
\* user was confirmed at that moment.
Issue(op, email, presented, access, refresh, user) ==
    [op |-> op, email |-> email, presented |-> presented,
     access_token |-> access, refresh_token |-> refresh,
     replaced |-> users[user].refresh_token,
     confirmed |-> users[user].confirmed]

\* The tokens a client can hold: every one the system has handed out.
Known ==
    sent \cup {r.access_token : r \in issued}
         \cup {r.refresh_token : r \in issued}

\* -------------------------------------------------------------- auth routes
\* Mutant: the existence check left out.
signup_unchecked(email, username, password) ==
    \E salt \in Salts :
        /\ nmail < MaxMails
        /\ nmail' = nmail + 1
        /\ users' = create_user(username, email,
                                get_password_hash(password, salt), users)
        /\ tasks' = [tasks EXCEPT ![email] = @ + 1]
        /\ plain' = [plain EXCEPT ![email] = password]
        /\ resp' = UserResponse("signup", email, password, NoToken, 201,
                                users'[Len(users')])
        /\ UNCHANGED <<now, sent, issued, cache, minted, inflight, reading, contacts, contact_seq, result>>

signup(email, username, password) ==
    LET exist_user == get_user_by_email(email, users) IN
    IF exist_user # 0
    THEN /\ resp' = Response("signup", email, password, NoToken, 409,
                             "Account already exists")
         /\ UNCHANGED <<users, now, nmail, tasks, sent, issued, cache, minted, plain, inflight, reading, contacts, contact_seq, result>>
    ELSE \E salt \in Salts :
         /\ nmail < MaxMails
         /\ nmail' = nmail + 1
         /\ users' = create_user(username, email,
                                 get_password_hash(password, salt), users)
         /\ tasks' = [tasks EXCEPT ![email] = @ + 1]
         /\ plain' = [plain EXCEPT ![email] = password]
         /\ resp' = UserResponse("signup", email, password, NoToken, 201,
                                 users'[Len(users')])
         /\ UNCHANGED <<now, sent, issued, cache, minted, inflight, reading, contacts, contact_seq, result>>

\* Mutant: the index on users.email is not unique.
email_is_unique_off(email, db) == TRUE

\* The unique index on users.email: an insert is refused when a row with that
\* email exists.
email_is_unique(email, db) == get_user_by_email(email, db) = 0

\* signup in a worker, up to and including its existence check and the
\* hashing of the password.
signup_check(w, email, username, password) ==
    /\ inflight[w] = NoRequest
    /\ IF get_user_by_email(email, users) # 0
       THEN /\ resp' = Response("signup", email, password, NoToken, 409,
                                "Account already exists")
            /\ UNCHANGED <<users, now, nmail, tasks, sent, issued, cache, minted,
                           plain, inflight, reading, contacts, contact_seq, result>>
       ELSE \E salt \in Salts :
            /\ inflight' = [inflight EXCEPT ![w] =
                               [email |-> email, username |-> username,
                                password |-> password,
                                hash |-> get_password_hash(password, salt)]]
            /\ UNCHANGED <<users, now, nmail, tasks, sent, issued, cache, minted,
                           plain, resp, reading, contacts, contact_seq, result>>

\* The rest of signup in that worker: create_user, add_task, return. The
\* commit raises IntegrityError when the email has been inserted meanwhile;
\* get_db turns an SQLAlchemyError into a 400.
signup_insert(w) ==
    LET r == inflight[w] IN
    /\ r # NoRequest
    /\ inflight' = [inflight EXCEPT ![w] = NoRequest]
    /\ IF email_is_unique(r.email, users)
       THEN /\ nmail < MaxMails
            /\ nmail' = nmail + 1
            /\ users' = create_user(r.username, r.email, r.hash, users)
            /\ tasks' = [tasks EXCEPT ![r.email] = @ + 1]
            /\ plain' = [plain EXCEPT ![r.email] = r.password]
            /\ resp' = UserResponse("signup", r.email, r.password, NoToken, 201,
                                    users'[Len(users')])
            /\ UNCHANGED <<now, sent, issued, cache, minted, reading, contacts, contact_seq, result>>
       ELSE /\ resp' = Response("signup", r.email, r.password, NoToken, 400,
                                "IntegrityError")
            /\ UNCHANGED <<users, now, nmail, tasks, sent, issued, cache, minted,
                           plain, reading, contacts, contact_seq, result>>

\* Mutant: a failed delivery comes back as the answer of the request.
send_email_surfaces_failure(email) ==
    /\ tasks[email] > 0
    /\ tasks' = [tasks EXCEPT ![email] = @ - 1]
    /\ \E delivered \in BOOLEAN :
          IF delivered
          THEN /\ sent' = sent \cup {create_email_token(email, now)}
               /\ resp' = resp
          ELSE /\ sent' = sent
               /\ resp' = Response(resp.op, email, "", NoToken, 500, "ConnectionErrors")
    /\ UNCHANGED <<users, now, nmail, issued, cache, minted, plain, inflight, reading, contacts, contact_seq, result>>

\* The background task: mint the verification token when the task runs and
\* hand it to FastMail; ConnectionErrors is caught and printed.
send_email(email) ==
    /\ tasks[email] > 0
    /\ tasks' = [tasks EXCEPT ![email] = @ - 1]
    /\ \E delivered \in BOOLEAN :
          sent' = IF delivered THEN sent \cup {create_email_token(email, now)}
                  ELSE sent
    /\ UNCHANGED <<users, now, nmail, issued, cache, minted, plain, resp, inflight, reading, contacts, contact_seq, result>>

\* Mutant: the confirmed check left out.
login_denial_unconfirmed_allowed(user, password, db) ==
    IF user = 0 THEN "Invalid email"
    ELSE IF ~verify_password(password, db[user].password) THEN "Invalid password"
    ELSE ""

\* Mutant: the password check left out.
login_denial_any_password(user, password, db) ==
    IF user = 0 THEN "Invalid email"
    ELSE IF ~db[user].confirmed THEN "Email is not confirmed"
    ELSE ""

\* Mutant: the password checked before the confirmed flag.
login_denial_password_first(user, password, db) ==
    IF user = 0 THEN "Invalid email"
    ELSE IF ~verify_password(password, db[user].password) THEN "Invalid password"
    ELSE IF ~db[user].confirmed THEN "Email is not confirmed"
    ELSE ""

\* The three checks of login in their order: the detail of the 401 raised,
\* "" when all three pass.
login_denial(user, password, db) ==
    IF user = 0 THEN "Invalid email"
    ELSE IF ~db[user].confirmed THEN "Email is not confirmed"
    ELSE IF ~verify_password(password, db[user].password) THEN "Invalid password"
    ELSE ""

\* Mutant: the username, not the email, as the subject of the refresh token.
login_subject_is_username(username, password) ==
    LET user == get_user_by_email(username, users)
        denial == login_denial(user, password, users)
    IN
    IF denial # ""
    THEN /\ resp' = Response("login", username, password, NoToken, 401, denial)
         /\ UNCHANGED <<users, now, nmail, tasks, sent, issued, cache, minted, plain, inflight, reading, contacts, contact_seq, result>>
    ELSE LET access_token == create_access_token(users[user].email, NoDelta, now)
             refresh_token_ == create_refresh_token(users[user].username, NoDelta, now)
         IN  /\ issued' = issued \cup {Issue("login", users[user].email, NoToken,
                                              access_token, refresh_token_, user)}
             /\ Cardinality(issued') <= MaxIssued
             /\ users' = update_token(user, refresh_token_, users)
             /\ resp' = TokenResponse("login", username, password, NoToken,
                                      access_token, refresh_token_)
             /\ UNCHANGED <<now, nmail, tasks, sent, cache, minted, plain, inflight, reading, contacts, contact_seq, result>>

\* Mutant: a login that does not ask for a confirmed email.
login_before_confirmation(username, password) ==
    LET user == get_user_by_email(username, users)
        denial == login_denial_unconfirmed_allowed(user, password, users)
    IN
    IF denial # ""
    THEN /\ resp' = Response("login", username, password, NoToken, 401, denial)
         /\ UNCHANGED <<users, now, nmail, tasks, sent, issued, cache, minted, plain, inflight, reading, contacts, contact_seq, result>>
    ELSE LET access_token == create_access_token(users[user].email, NoDelta, now)
             refresh_token_ == create_refresh_token(users[user].email, NoDelta, now)
         IN  /\ issued' = issued \cup {Issue("login", users[user].email, NoToken,
                                              access_token, refresh_token_, user)}
             /\ Cardinality(issued') <= MaxIssued
             /\ users' = update_token(user, refresh_token_, users)
             /\ resp' = TokenResponse("login", username, password, NoToken,
                                      access_token, refresh_token_)
             /\ UNCHANGED <<now, nmail, tasks, sent, cache, minted, plain, inflight, reading, contacts, contact_seq, result>>

login(username, password) ==
    LET user == get_user_by_email(username, users)
        denial == login_denial(user, password, users)
    IN
    IF denial # ""
    THEN /\ resp' = Response("login", username, password, NoToken, 401, denial)
         /\ UNCHANGED <<users, now, nmail, tasks, sent, issued, cache, minted, plain, inflight, reading, contacts, contact_seq, result>>
    ELSE LET access_token == create_access_token(users[user].email, NoDelta, now)
             refresh_token_ == create_refresh_token(users[user].email, NoDelta, now)
         IN  /\ issued' = issued \cup {Issue("login", users[user].email, NoToken,
                                              access_token, refresh_token_, user)}
             /\ Cardinality(issued') <= MaxIssued
             /\ users' = update_token(user, refresh_token_, users)
             /\ resp' = TokenResponse("login", username, password, NoToken,
                                      access_token, refresh_token_)
             /\ UNCHANGED <<now, nmail, tasks, sent, cache, minted, plain, inflight, reading, contacts, contact_seq, result>>

\* Mutant: the stored token taken from the cached snapshot when there is one.
refresh_token_branch_cached(token, db, t) ==
    LET d == decode_refresh_token(token, t) IN
    IF ~d.ok THEN "raise"
    ELSE LET user == get_user_by_email(d.email, db)
             hit == r_get(d.email, t)
         IN
         IF user = 0 THEN "no_user"
         ELSE IF hit.present /\ hit.user.refresh_token # token THEN "reuse"
         ELSE IF ~hit.present /\ db[user].refresh_token # token THEN "reuse"
         ELSE "rotate"

\* The checks of refresh_token in their order: which way the route goes.
refresh_token_branch(token, db, t) ==
    LET d == decode_refresh_token(token, t) IN
    IF ~d.ok THEN "raise"
    ELSE LET user == get_user_by_email(d.email, db) IN
         IF user = 0 THEN "no_user"
         ELSE IF db[user].refresh_token # token THEN "reuse"
         ELSE "rotate"

\* Mutant: the 401 raised without clearing the stored token first.
refresh_token_keeps_stored(token) ==
    LET d == decode_refresh_token(token, now)
        user == get_user_by_email(d.email, users)
        branch == refresh_token_branch(token, users, now)
    IN
    IF branch = "raise"
    THEN /\ resp' = Response("refresh_token", "", "", token, d.status, d.detail)
         /\ UNCHANGED <<users, now, nmail, tasks, sent, issued, cache, minted, plain, inflight, reading, contacts, contact_seq, result>>
    ELSE IF branch = "no_user"
    THEN \* user is None: reading user.refresh_token raises AttributeError
         /\ resp' = Response("refresh_token", d.email, "", token, 500,
                             "Internal Server Error")
         /\ UNCHANGED <<users, now, nmail, tasks, sent, issued, cache, minted, plain, inflight, reading, contacts, contact_seq, result>>
    ELSE IF branch = "reuse"
    THEN /\ resp' = Response("refresh_token", d.email, "", token, 401,
                             "Invalid refresh token")
         /\ UNCHANGED <<users, now, nmail, tasks, sent, issued, cache, minted, plain, inflight, reading, contacts, contact_seq, result>>
    ELSE LET access_token == create_access_token(d.email, NoDelta, now)
             refresh_token_ == create_refresh_token(d.email, NoDelta, now)
         IN  /\ issued' = issued \cup {Issue("refresh_token", d.email, token,
                                              access_token, refresh_token_, user)}
             /\ Cardinality(issued') <= MaxIssued
             /\ users' = update_token(user, refresh_token_, users)
             /\ resp' = TokenResponse("refresh_token", d.email, "", token,
                                      access_token, refresh_token_)
             /\ UNCHANGED <<now, nmail, tasks, sent, cache, minted, plain, inflight, reading, contacts, contact_seq, result>>

refresh_token(token) ==
    LET d == decode_refresh_token(token, now)
        user == get_user_by_email(d.email, users)
        branch == refresh_token_branch(token, users, now)
    IN
    IF branch = "raise"
    THEN /\ resp' = Response("refresh_token", "", "", token, d.status, d.detail)
         /\ UNCHANGED <<users, now, nmail, tasks, sent, issued, cache, minted, plain, inflight, reading, contacts, contact_seq, result>>
    ELSE IF branch = "no_user"
    THEN \* user is None: reading user.refresh_token raises AttributeError
         /\ resp' = Response("refresh_token", d.email, "", token, 500,
                             "Internal Server Error")
         /\ UNCHANGED <<users, now, nmail, tasks, sent, issued, cache, minted, plain, inflight, reading, contacts, contact_seq, result>>
    ELSE IF branch = "reuse"
    THEN /\ users' = update_token(user, NoToken, users)
         /\ resp' = Response("refresh_token", d.email, "", token, 401,
                             "Invalid refresh token")
         /\ UNCHANGED <<now, nmail, tasks, sent, issued, cache, minted, plain, inflight, reading, contacts, contact_seq, result>>
    ELSE LET access_token == create_access_token(d.email, NoDelta, now)
             refresh_token_ == create_refresh_token(d.email, NoDelta, now)
         IN  /\ issued' = issued \cup {Issue("refresh_token", d.email, token,
                                              access_token, refresh_token_, user)}
             /\ Cardinality(issued') <= MaxIssued
             /\ users' = update_token(user, refresh_token_, users)
             /\ resp' = TokenResponse("refresh_token", d.email, "", token,
                                      access_token, refresh_token_)
             /\ UNCHANGED <<now, nmail, tasks, sent, cache, minted, plain, inflight, reading, contacts, contact_seq, result>>

\* refresh_token in a worker, up to and including the read of the user row.
refresh_token_read(w, token) ==
    LET d == decode_refresh_token(token, now)
        user == get_user_by_email(d.email, users)
    IN
    /\ reading[w] = NoRead
    /\ IF ~d.ok
       THEN /\ resp' = Response("refresh_token", "", "", token, d.status, d.detail)
            /\ UNCHANGED <<users, now, nmail, tasks, sent, issued, cache, minted,
                           plain, inflight, reading, contacts, contact_seq, result>>
       ELSE /\ user # 0
            /\ reading' = [reading EXCEPT ![w] =
                              [token |-> token, email |-> d.email,
                               stored |-> users[user].refresh_token,
                               superseded |->
                                   \E r \in issued : /\ r.op = "refresh_token"
                                                     /\ r.presented = token]]
            /\ UNCHANGED <<users, now, nmail, tasks, sent, issued, cache, minted,
                           plain, inflight, resp, contacts, contact_seq, result>>

\* Mutant: the comparison made with the row as it is at the commit.
refresh_token_write_rereads(w) ==
    LET r == reading[w]
        user == get_user_by_email(r.email, users)
    IN
    /\ r # NoRead
    /\ reading' = [reading EXCEPT ![w] = NoRead]
    /\ IF users[user].refresh_token # r.token
       THEN /\ users' = update_token(user, NoToken, users)
            /\ resp' = Response("refresh_token", r.email, "", r.token, 401,
                                "Invalid refresh token")
            /\ UNCHANGED <<now, nmail, tasks, sent, issued, cache, minted, plain,
                           inflight, contacts, contact_seq, result>>
       ELSE LET access_token == create_access_token(r.email, NoDelta, now)
                refresh_token_ == create_refresh_token(r.email, NoDelta, now)
            IN  /\ issued' = issued \cup {Issue("refresh_token", r.email, r.token,
                                                 access_token, refresh_token_, user)}
                /\ Cardinality(issued') <= MaxRaceIssued
                /\ users' = update_token(user, refresh_token_, users)
                /\ resp' = TokenResponse("refresh_token", r.email, "", r.token,
                                         access_token, refresh_token_)
                /\ UNCHANGED <<now, nmail, tasks, sent, cache, minted, plain,
                               inflight, contacts, contact_seq, result>>

\* The rest of refresh_token in that worker: the comparison with the value
\* read, and the commit of update_token.
refresh_token_write(w) ==
    LET r == reading[w]
        user == get_user_by_email(r.email, users)
    IN
    /\ r # NoRead
    /\ reading' = [reading EXCEPT ![w] = NoRead]
    /\ IF r.stored # r.token
       THEN /\ users' = update_token(user, NoToken, users)
            /\ resp' = Response("refresh_token", r.email, "", r.token, 401,
                                "Invalid refresh token")
            /\ UNCHANGED <<now, nmail, tasks, sent, issued, cache, minted, plain,
                           inflight, contacts, contact_seq, result>>
       ELSE LET access_token == create_access_token(r.email, NoDelta, now)
                refresh_token_ == create_refresh_token(r.email, NoDelta, now)
            IN  /\ issued' = issued \cup {Issue("refresh_token", r.email, r.token,
                                                 access_token, refresh_token_, user)}
                /\ Cardinality(issued') <= MaxRaceIssued
                /\ users' = update_token(user, refresh_token_, users)
                /\ resp' = TokenResponse("refresh_token", r.email, "", r.token,
                                         access_token, refresh_token_)
                /\ UNCHANGED <<now, nmail, tasks, sent, cache, minted, plain,
                               inflight, contacts, contact_seq, result>>

\* Mutant: the check for an already confirmed user left out.
confirmed_email_unguarded(token) ==
    LET d == get_email_from_token(token, now) IN
    IF ~d.ok
    THEN /\ resp' = Response("confirmed_email", "", "", token, d.status, d.detail)
         /\ UNCHANGED <<users, now, nmail, tasks, sent, issued, cache, minted, plain, inflight, reading, contacts, contact_seq, result>>
    ELSE LET user == get_user_by_email(d.email, users) IN
    IF user = 0
    THEN /\ resp' = Response("confirmed_email", d.email, "", token, 400,
                             "Verification error")
         /\ UNCHANGED <<users, now, nmail, tasks, sent, issued, cache, minted, plain, inflight, reading, contacts, contact_seq, result>>
    ELSE /\ users' = repository_confirmed_email(d.email, users)
         /\ resp' = Response("confirmed_email", d.email, "", token, 200,
                             "Email was confirmed")
         /\ UNCHANGED <<now, nmail, tasks, sent, issued, cache, minted, plain, inflight, reading, contacts, contact_seq, result>>

confirmed_email(token) ==
    LET d == get_email_from_token(token, now) IN
    IF ~d.ok
    THEN /\ resp' = Response("confirmed_email", "", "", token, d.status, d.detail)
         /\ UNCHANGED <<users, now, nmail, tasks, sent, issued, cache, minted, plain, inflight, reading, contacts, contact_seq, result>>
    ELSE LET user == get_user_by_email(d.email, users) IN
    IF user = 0
    THEN /\ resp' = Response("confirmed_email", d.email, "", token, 400,
                             "Verification error")
         /\ UNCHANGED <<users, now, nmail, tasks, sent, issued, cache, minted, plain, inflight, reading, contacts, contact_seq, result>>
    ELSE IF users[user].confirmed
    THEN /\ resp' = Response("confirmed_email", d.email, "", token, 200,
                             "Your email is already confirmed")
         /\ UNCHANGED <<users, now, nmail, tasks, sent, issued, cache, minted, plain, inflight, reading, contacts, contact_seq, result>>
    ELSE /\ users' = repository_confirmed_email(d.email, users)
         /\ resp' = Response("confirmed_email", d.email, "", token, 200,
                             "Email was confirmed")
         /\ UNCHANGED <<now, nmail, tasks, sent, issued, cache, minted, plain, inflight, reading, contacts, contact_seq, result>>

\* Mutant: the check for an already confirmed user left out.
request_email_always_sends(email) ==
    LET user == get_user_by_email(email, users) IN
    IF user # 0
    THEN /\ nmail < MaxMails
         /\ nmail' = nmail + 1
         /\ tasks' = [tasks EXCEPT ![email] = @ + 1]
         /\ resp' = Response("request_email", email, "", NoToken, 200,
                             "Check your email for confirmation")
         /\ UNCHANGED <<users, now, sent, issued, cache, minted, plain, inflight, reading, contacts, contact_seq, result>>
    ELSE /\ resp' = Response("request_email", email, "", NoToken, 200,
                             "Check your email for confirmation")
         /\ UNCHANGED <<users, now, nmail, tasks, sent, issued, cache, minted, plain, inflight, reading, contacts, contact_seq, result>>

request_email(email) ==
    LET user == get_user_by_email(email, users) IN
    IF user # 0 /\ users[user].confirmed
    THEN /\ resp' = Response("request_email", email, "", NoToken, 200,
                             "Your email is already confirmed")
         /\ UNCHANGED <<users, now, nmail, tasks, sent, issued, cache, minted, plain, inflight, reading, contacts, contact_seq, result>>
    ELSE IF user # 0
    THEN /\ nmail < MaxMails
         /\ nmail' = nmail + 1
         /\ tasks' = [tasks EXCEPT ![email] = @ + 1]
         /\ resp' = Response("request_email", email, "", NoToken, 200,
                             "Check your email for confirmation")
         /\ UNCHANGED <<users, now, sent, issued, cache, minted, plain, inflight, reading, contacts, contact_seq, result>>
    ELSE /\ resp' = Response("request_email", email, "", NoToken, 200,
                             "Check your email for confirmation")
         /\ UNCHANGED <<users, now, nmail, tasks, sent, issued, cache, minted, plain, inflight, reading, contacts, contact_seq, result>>

\* Mutant: the cache entry of the user dropped with the write.
update_avatar_invalidates(email, url) ==
    /\ get_user_by_email(email, users) # 0
    /\ users' = repository_update_avatar(email, url, users)
    /\ cache' = [cache EXCEPT ![email] = NoEntry]
    /\ resp' = UserResponse("update_avatar", email, "", NoToken, 200,
                            users'[get_user_by_email(email, users)])
    /\ UNCHANGED <<now, nmail, tasks, sent, issued, minted, plain, inflight, reading, contacts, contact_seq, result>>

\* The avatar of an existing user replaced by an uploaded image's url.
update_avatar(email, url) ==
    /\ get_user_by_email(email, users) # 0
    /\ users' = repository_update_avatar(email, url, users)
    /\ resp' = UserResponse("update_avatar", email, "", NoToken, 200,
                            users'[get_user_by_email(email, users)])
    /\ UNCHANGED <<now, nmail, tasks, sent, issued, cache, minted, plain, inflight, reading, contacts, contact_seq, result>>

\* Mutant: nothing is written to the cache on a miss.
get_current_user_no_write(token) ==
    LET d == get_current_user_decode(token, now) IN
    IF ~d.ok
    THEN /\ resp' = Response("get_current_user", "", "", token, d.status, d.detail)
         /\ UNCHANGED <<users, now, nmail, tasks, sent, issued, cache, minted, plain, inflight, reading, contacts, contact_seq, result>>
    ELSE LET hit == r_get(d.email, now) IN
    IF ~hit.present
    THEN LET user == get_user_by_email(d.email, users) IN
         IF user = 0
         THEN /\ resp' = Response("get_current_user", d.email, "", token, 401,
                                  "Could not validate credentials")
              /\ UNCHANGED <<users, now, nmail, tasks, sent, issued, cache, minted, plain, inflight, reading, contacts, contact_seq, result>>
         ELSE /\ resp' = UserResponse("get_current_user", d.email, "", token, 200,
                                      users[user])
              /\ UNCHANGED <<users, now, nmail, tasks, sent, issued, cache, minted, plain, inflight, reading, contacts, contact_seq, result>>
    ELSE /\ resp' = UserResponse("get_current_user", d.email, "", token, 200,
                                 hit.user)
         /\ UNCHANGED <<users, now, nmail, tasks, sent, issued, cache, minted, plain, inflight, reading, contacts, contact_seq, result>>

\* Mutant: an access token refused once the user has no stored refresh token.
get_current_user_needs_session(token) ==
    LET d == get_current_user_decode(token, now) IN
    IF ~d.ok
    THEN /\ resp' = Response("get_current_user", "", "", token, d.status, d.detail)
         /\ UNCHANGED <<users, now, nmail, tasks, sent, issued, cache, minted, plain, inflight, reading, contacts, contact_seq, result>>
    ELSE IF /\ get_user_by_email(d.email, users) # 0
            /\ users[get_user_by_email(d.email, users)].refresh_token = NoToken
    THEN /\ resp' = Response("get_current_user", d.email, "", token, 401,
                             "Could not validate credentials")
         /\ UNCHANGED <<users, now, nmail, tasks, sent, issued, cache, minted, plain, inflight, reading, contacts, contact_seq, result>>
    ELSE LET hit == r_get(d.email, now) IN
    IF ~hit.present
    THEN LET user == get_user_by_email(d.email, users) IN
         IF user = 0
         THEN /\ resp' = Response("get_current_user", d.email, "", token, 401,
                                  "Could not validate credentials")
              /\ UNCHANGED <<users, now, nmail, tasks, sent, issued, cache, minted, plain, inflight, reading, contacts, contact_seq, result>>
         ELSE /\ cache' = [cache EXCEPT ![d.email] =
                              r_expire(r_set(users[user], now), now)]
              /\ resp' = UserResponse("get_current_user", d.email, "", token, 200,
                                      users[user])
              /\ UNCHANGED <<users, now, nmail, tasks, sent, issued, minted, plain, inflight, reading, contacts, contact_seq, result>>
    ELSE /\ resp' = UserResponse("get_current_user", d.email, "", token, 200,
                                 hit.user)
         /\ UNCHANGED <<users, now, nmail, tasks, sent, issued, cache, minted, plain, inflight, reading, contacts, contact_seq, result>>

\* The dependency of every protected route.
get_current_user(token) ==
    LET d == get_current_user_decode(token, now) IN
    IF ~d.ok
    THEN /\ resp' = Response("get_current_user", "", "", token, d.status, d.detail)
         /\ UNCHANGED <<users, now, nmail, tasks, sent, issued, cache, minted, plain, inflight, reading, contacts, contact_seq, result>>
    ELSE LET hit == r_get(d.email, now) IN
    IF ~hit.present
    THEN LET user == get_user_by_email(d.email, users) IN
         IF user = 0
         THEN /\ resp' = Response("get_current_user", d.email, "", token, 401,
                                  "Could not validate credentials")
              /\ UNCHANGED <<users, now, nmail, tasks, sent, issued, cache, minted, plain, inflight, reading, contacts, contact_seq, result>>
         ELSE /\ cache' = [cache EXCEPT ![d.email] =
                              r_expire(r_set(users[user], now), now)]
              /\ resp' = UserResponse("get_current_user", d.email, "", token, 200,
                                      users[user])
              /\ UNCHANGED <<users, now, nmail, tasks, sent, issued, minted, plain, inflight, reading, contacts, contact_seq, result>>
    ELSE /\ resp' = UserResponse("get_current_user", d.email, "", token, 200,
                                 hit.user)
         /\ UNCHANGED <<users, now, nmail, tasks, sent, issued, cache, minted, plain, inflight, reading, contacts, contact_seq, result>>

\* get_current_user when one of its redis calls raises redis.ConnectionError:
\* nothing catches it, the request ends in a 500. failing names the call.
get_current_user_redis_down(token, failing) ==
    LET d == get_current_user_decode(token, now) IN
    IF ~d.ok
    THEN /\ resp' = Response("get_current_user", "", "", token, d.status, d.detail)
         /\ UNCHANGED <<users, now, nmail, tasks, sent, issued, cache, minted, plain, inflight, reading, contacts, contact_seq, result>>
    ELSE IF failing = "get"
    THEN /\ resp' = Response("get_current_user", d.email, "", token, 500,
                             "Internal Server Error")
         /\ UNCHANGED <<users, now, nmail, tasks, sent, issued, cache, minted, plain, inflight, reading, contacts, contact_seq, result>>
    ELSE LET hit == r_get(d.email, now) IN
    IF hit.present
    THEN /\ resp' = UserResponse("get_current_user", d.email, "", token, 200,
                                 hit.user)
         /\ UNCHANGED <<users, now, nmail, tasks, sent, issued, cache, minted, plain, inflight, reading, contacts, contact_seq, result>>
    ELSE LET user == get_user_by_email(d.email, users) IN
    IF user = 0
    THEN /\ resp' = Response("get_current_user", d.email, "", token, 401,
                             "Could not validate credentials")
         /\ UNCHANGED <<users, now, nmail, tasks, sent, issued, cache, minted, plain, inflight, reading, contacts, contact_seq, result>>
    ELSE /\ cache' = IF failing = "set" THEN cache
                     ELSE [cache EXCEPT ![d.email] = r_set(users[user], now)]
         /\ resp' = Response("get_current_user", d.email, "", token, 500,
                             "Internal Server Error")
         /\ UNCHANGED <<users, now, nmail, tasks, sent, issued, minted, plain, inflight, reading, contacts, contact_seq, result>>

\* ------------------------------------------------------------------- clock
\* The clock readings at which requests arrive.
Instants == {0, 1}

Tick(t) ==
    /\ t > now
    /\ now' = t
    /\ UNCHANGED <<users, nmail, tasks, sent, issued, cache, minted, plain, resp, inflight, reading, contacts, contact_seq, result>>

\* ----------------------------------------------------------- specification
Init ==
    /\ users = <<>>
    /\ now = 0
    /\ nmail = 0
    /\ tasks = [e \in Emails |-> 0]
    /\ sent = {}
    /\ issued = {}
    /\ cache = [e \in Emails |-> NoEntry]
    /\ minted = {}
    /\ plain = [e \in Emails |-> ""]
    /\ inflight = [w \in Workers |-> NoRequest]
    /\ reading = [w \in Workers |-> NoRead]
    /\ resp = Response("", "", "", NoToken, 0, "")
    /\ contacts = {}
    /\ contact_seq = 0
    /\ result = [op |-> "", user_id |-> 0, contact_id |-> 0, rows |-> {}]

Next ==
    \/ \E e \in Emails, u \in Usernames, p \in SignupPasswords : signup(e, u, p)
    \/ \E e \in Emails : send_email(e)
    \/ \E e \in Emails, p \in LoginPasswords : login(e, p)
    \/ \E t \in Known : refresh_token(t)
    \/ \E t \in Known : confirmed_email(t)
    \/ \E e \in Emails : request_email(e)
    \/ \E t \in Instants : Tick(t)

\* The /auth routes, the mail task and the clock.
Spec == Init /\ [][Next]_vars

\* The same with the protected routes' dependency and its cache.
ResolveNext ==
    \/ Next
    \/ \E t \in Known : get_current_user(t)

ResolveSpec == Init /\ [][ResolveNext]_vars

\* ----------------------------------------- every operation that writes a user
\* All the operations on the users table, within one clock second.
LifeNext ==
    \/ \E e \in Emails, u \in Usernames, p \in SignupPasswords : signup(e, u, p)
    \/ \E e \in Emails : send_email(e)
    \/ \E e \in Emails, p \in LoginPasswords : login(e, p)
    \/ \E t \in Known : refresh_token(t)
    \/ \E t \in Known : confirmed_email(t)
    \/ \E e \in Emails : request_email(e)
    \/ \E e \in Emails, a \in AvatarUrls : update_avatar(e, a)

LifeSpec == Init /\ [][LifeNext]_vars

\* ------------------------------------------------- signups served side by side
RaceNext ==
    \/ \E w \in Workers, e \in Emails, u \in Usernames, p \in SignupPasswords :
          signup_check(w, e, u, p)
    \/ \E w \in Workers : signup_insert(w)
    \/ \E e \in Emails : send_email(e)
    \/ \E t \in Known : confirmed_email(t)
    \/ \E e \in Emails, p \in LoginPasswords : login(e, p)

RaceSpec == Init /\ [][RaceNext]_vars

\* ------------------------------------------- one user's writes and the cache
\* Every operation that writes the user's row, with the resolution that
\* caches it.
StaleNext ==
    \/ \E e \in CacheUsers, u \in Usernames, p \in SignupPasswords : signup(e, u, p)
    \/ \E e \in CacheUsers : send_email(e)
    \/ \E t \in Known : confirmed_email(t)
    \/ \E e \in CacheUsers, p \in SignupPasswords : login(e, p)
    \/ \E t \in Known : refresh_token(t)
    \/ \E e \in CacheUsers, a \in AvatarUrls : update_avatar(e, a)
    \/ \E t \in Known : get_current_user(t)
    \/ \E t \in Instants : Tick(t)

StaleSpec == Init /\ [][StaleNext]_vars

\* ------------------------------------------ refreshes at the end of a lifetime
\* The clock readings at the issue of a refresh token, at its exp claim and
\* one second later.
ExpiryInstants == {0, REFRESH_TOKEN_DEFAULT, REFRESH_TOKEN_DEFAULT + 1}

\* One user's way to a refresh token, and refreshes with every token the
\* user was given.
RefreshExpiryNext ==
    \/ \E e \in CacheUsers, u \in Usernames, p \in SignupPasswords : signup(e, u, p)
    \/ \E e \in CacheUsers : send_email(e)
    \/ \E t \in Known : confirmed_email(t)
    \/ \E e \in CacheUsers, p \in LoginPasswords : login(e, p)
    \/ \E t \in Known : refresh_token(t)
    \/ \E t \in ExpiryInstants : Tick(t)

RefreshExpirySpec == Init /\ [][RefreshExpiryNext]_vars

\* ------------------------------------------------ refreshes served side by side
\* The clock seconds of a login and of the commits of two refreshes.
RaceInstants == {0, 1, 2}

\* One user's way to a refresh token, and refresh requests of two workers.
RefreshRaceNext ==
    \/ \E e \in CacheUsers, u \in Usernames, p \in SignupPasswords : signup(e, u, p)
    \/ \E e \in CacheUsers : send_email(e)
    \/ \E t \in Known : confirmed_email(t)
    \/ \E e \in CacheUsers, p \in SignupPasswords : login(e, p)
    \/ \E w \in Workers, t \in Known : refresh_token_read(w, t)
    \/ \E w \in Workers : refresh_token_write(w)
    \/ \E t \in RaceInstants : Tick(t)

RefreshRaceSpec == Init /\ [][RefreshRaceNext]_vars

\* ------------------------------------------------- the token codec on its own
\* Direct calls of the three issuers and the three decoders, with every
\* expires_delta a caller can pass, at clock readings on both sides of each
\* lifetime's end.
Deltas == {NoDelta, Delta(0), Delta(1), Delta(ACCESS_TOKEN_DEFAULT)}

CodecInstants ==
    {0, 1, 2, ACCESS_TOKEN_DEFAULT, ACCESS_TOKEN_DEFAULT + 1,
     EMAIL_TOKEN_LIFETIME, EMAIL_TOKEN_LIFETIME + 1,
     REFRESH_TOKEN_DEFAULT, REFRESH_TOKEN_DEFAULT + 1}

Mint(token) ==
    /\ Cardinality(minted \cup {token}) <= MaxMinted
    /\ minted' = minted \cup {token}
    /\ UNCHANGED <<users, now, nmail, tasks, sent, issued, cache, plain, resp, inflight, reading, contacts, contact_seq, result>>

CallCreateAccessToken(sub, delta) == Mint(create_access_token(sub, delta, now))

CallCreateRefreshToken(sub, delta) == Mint(create_refresh_token(sub, delta, now))

CallCreateEmailToken(sub) == Mint(create_email_token(sub, now))

Decode(op, token, d) ==
    /\ resp' = Response(op, d.email, "", token, d.status, d.detail)
    /\ UNCHANGED <<users, now, nmail, tasks, sent, issued, cache, minted, plain, inflight, reading, contacts, contact_seq, result>>

CallGetCurrentUserDecode(token) ==
    Decode("get_current_user", token, get_current_user_decode(token, now))

CallDecodeRefreshToken(token) ==
    Decode("decode_refresh_token", token, decode_refresh_token(token, now))

CallGetEmailFromToken(token) ==
    Decode("get_email_from_token", token, get_email_from_token(token, now))

CodecNext ==
    \/ \E e \in Emails, d \in Deltas : CallCreateAccessToken(e, d)
    \/ \E e \in Emails, d \in Deltas : CallCreateRefreshToken(e, d)
    \/ \E e \in Emails : CallCreateEmailToken(e)
    \/ \E t \in minted : CallGetCurrentUserDecode(t)
    \/ \E t \in minted : CallDecodeRefreshToken(t)
    \/ \E t \in minted : CallGetEmailFromToken(t)
    \/ \E t \in CodecInstants : Tick(t)

CodecSpec == Init /\ [][CodecNext]_vars

\* ------------------------------------- confirmation links of any valid token
\* The routes that lead to a confirmation, with verification tokens made by
\* create_email_token for any email, a user's or not.
ConfirmNext ==
    \/ \E e \in Emails, u \in Usernames, p \in SignupPasswords : signup(e, u, p)
    \/ \E e \in Emails : send_email(e)
    \/ \E e \in Emails, p \in LoginPasswords : login(e, p)
    \/ \E e \in Emails : CallCreateEmailToken(e)
    \/ \E t \in Known \cup minted : confirmed_email(t)
    \/ \E t \in Instants : Tick(t)

ConfirmSpec == Init /\ [][ConfirmNext]_vars

\* ------------------------------------------------------ identity resolution
\* The clock readings around the end of a cache entry's and an access
\* token's life.
CacheInstants == {0, CACHE_TTL - 1, CACHE_TTL, CACHE_TTL + 1}

\* data.get("sub") of the access tokens made apart from login: an email
\* nobody signed up with, or none.
Subjects == (Emails \ CacheUsers) \cup {""}

\* The redis calls of get_current_user, any of which can fail.
RedisCalls == {"get", "set", "expire"}

\* The way to a bearer token, and the dependency resolving it.
CacheNext ==
    \/ \E e \in CacheUsers, u \in Usernames, p \in SignupPasswords : signup(e, u, p)
    \/ \E e \in CacheUsers : send_email(e)
    \/ \E t \in Known : confirmed_email(t)
    \/ \E e \in CacheUsers, p \in SignupPasswords : login(e, p)
    \/ \E e \in Subjects : CallCreateAccessToken(e, NoDelta)
    \/ \E t \in Known \cup minted : get_current_user(t)
    \/ \E t \in CacheInstants : Tick(t)

CacheSpec == Init /\ [][CacheNext]_vars

\* The same with redis failing now and then.
OutageNext ==
    \/ CacheNext
    \/ \E t \in Known \cup minted, c \in RedisCalls :
          get_current_user_redis_down(t, c)

OutageSpec == Init /\ [][OutageNext]_vars

\* ------------------------------------------------------------------ contacts
\* A date as the queries see it: extract('month', d) and extract('day', d).
Date(month, day) == [month |-> month, day |-> day]

DaysInMonth(month) ==
    IF month = 2 THEN 28
    ELSE IF month \in {4, 6, 9, 11} THEN 30
    ELSE 31

\* d + timedelta(days=n), the year left out.
RECURSIVE AddDays(_, _)
AddDays(d, n) ==
    IF n = 0 THEN d
    ELSE IF d.day < DaysInMonth(d.month) THEN AddDays(Date(d.month, d.day + 1), n - 1)
    ELSE AddDays(Date(IF d.month = 12 THEN 1 ELSE d.month + 1, 1), n - 1)

\* The request bodies of create and update.
Bodies ==
    { [first_name |-> "John", second_name |-> "Doe", email |-> "john@x.com",
       phone |-> "123", birth_date |-> Date(1, 30)],
      [first_name |-> "Jane", second_name |-> "Roe", email |-> "jane@x.com",
       phone |-> "456", birth_date |-> Date(2, 2)] }

\* datetime.now().date() of a birthday request.
Todays == {Date(1, 28), Date(2, 1)}

Limits == {1, 2}

Offsets == {0, 1}

\* db.query(ContactModel).filter(user_id == user.id).limit(limit).offset(offset)
\* .all(): without ORDER BY the database picks which of the user's rows fill
\* the window; every set it can return.
get_contacts(limit, offset, user, db) ==
    LET owned == {c \in db : c.user_id = user.id}
        rest == IF Cardinality(owned) > offset THEN Cardinality(owned) - offset ELSE 0
    IN  {rows \in SUBSET owned : Cardinality(rows) = Min({limit, rest})}

\* .filter(and_(id == contact_id, user_id == user.id)).first(): the rows found,
\* none for None.
get_contact_by_id(contact_id, user, db) ==
    {c \in db : c.id = contact_id /\ c.user_id = user.id}

\* create: the table after db.add(contact); db.commit()
create(body, current_user, id, db) ==
    db \cup {[id |-> id, user_id |-> current_user.id,
              first_name |-> body.first_name, second_name |-> body.second_name,
              email |-> body.email, phone |-> body.phone,
              birth_date |-> body.birth_date]}

\* update: the table after the five assignments and db.commit()
update(contact_id, body, user, db) ==
    LET found == get_contact_by_id(contact_id, user, db) IN
    (db \ found) \cup
        {[c EXCEPT !.first_name = body.first_name,
                   !.second_name = body.second_name,
                   !.email = body.email,
                   !.phone = body.phone,
                   !.birth_date = body.birth_date] : c \in found}

\* remove: the table after db.delete(contact); db.commit()
remove(contact_id, user, db) == db \ get_contact_by_id(contact_id, user, db)

\* get_contacts_birthday: month equal to the start's, day between the days of
\* start and end; the query has no user in it.
get_contacts_birthday(start_date, end_date, db) ==
    {c \in db : /\ c.birth_date.month = start_date.month
                /\ start_date.day <= c.birth_date.day
                /\ c.birth_date.day <= end_date.day}

Returned(op, user, contact_id, rows) ==
    [op |-> op, user_id |-> user, contact_id |-> contact_id, rows |-> rows]

CallGetContacts(user, limit, offset) ==
    /\ \E rows \in get_contacts(limit, offset, users[user], contacts) :
          result' = Returned("get_contacts", user, 0, rows)
    /\ UNCHANGED <<users, now, nmail, tasks, sent, issued, cache, minted, plain,
                   inflight, reading, resp, contacts, contact_seq>>

CallGetContactById(user, contact_id) ==
    /\ result' = Returned("get_contact_by_id", user, contact_id,
                          get_contact_by_id(contact_id, users[user], contacts))
    /\ UNCHANGED <<users, now, nmail, tasks, sent, issued, cache, minted, plain,
                   inflight, reading, resp, contacts, contact_seq>>

CallCreate(user, body) ==
    /\ contact_seq < MaxContacts
    /\ contact_seq' = contact_seq + 1
    /\ contacts' = create(body, users[user], contact_seq', contacts)
    /\ result' = Returned("create", user, contact_seq',
                          get_contact_by_id(contact_seq', users[user], contacts'))
    /\ UNCHANGED <<users, now, nmail, tasks, sent, issued, cache, minted, plain,
                   inflight, reading, resp>>

CallUpdate(user, contact_id, body) ==
    /\ contacts' = update(contact_id, body, users[user], contacts)
    /\ result' = Returned("update", user, contact_id,
                          get_contact_by_id(contact_id, users[user], contacts'))
    /\ UNCHANGED <<users, now, nmail, tasks, sent, issued, cache, minted, plain,
                   inflight, reading, resp, contact_seq>>

CallRemove(user, contact_id) ==
    /\ contacts' = remove(contact_id, users[user], contacts)
    /\ result' = Returned("remove", user, contact_id,
                          get_contact_by_id(contact_id, users[user], contacts))
    /\ UNCHANGED <<users, now, nmail, tasks, sent, issued, cache, minted, plain,
                   inflight, reading, resp, contact_seq>>

\* user is the one asking; the function is not given it.
CallGetContactsBirthday(user, start_date, end_date) ==
    /\ result' = Returned("get_contacts_birthday", user, 0,
                          get_contacts_birthday(start_date, end_date, contacts))
    /\ UNCHANGED <<users, now, nmail, tasks, sent, issued, cache, minted, plain,
                   inflight, reading, resp, contacts, contact_seq>>

\* GET /upcoming_birthdays/: the contacts born on today or one of the next
\* seven days; the route has no get_current_user dependency and no user in
\* its query. user is the one asking.
upcoming_birthdays(user, today) ==
    /\ result' = Returned("upcoming_birthdays", user, 0,
                          {c \in contacts :
                              \E n \in 0..7 : c.birth_date = AddDays(today, n)})
    /\ UNCHANGED <<users, now, nmail, tasks, sent, issued, cache, minted, plain,
                   inflight, reading, resp, contacts, contact_seq>>

\* Two users and the contact operations each of them asks for.
ContactsNext ==
    \/ \E e \in Emails, u \in Usernames, p \in SignupPasswords : signup(e, u, p)
    \/ \E i \in 1..Len(users), l \in Limits, o \in Offsets : CallGetContacts(i, l, o)
    \/ \E i \in 1..Len(users), c \in 1..MaxContacts : CallGetContactById(i, c)
    \/ \E i \in 1..Len(users), b \in Bodies : CallCreate(i, b)
    \/ \E i \in 1..Len(users), c \in 1..MaxContacts, b \in Bodies : CallUpdate(i, c, b)
    \/ \E i \in 1..Len(users), c \in 1..MaxContacts : CallRemove(i, c)
    \/ \E i \in 1..Len(users), t \in Todays :
          CallGetContactsBirthday(i, t, AddDays(t, 7))
    \/ \E i \in 1..Len(users), t \in Todays : upcoming_birthdays(i, t)

ContactsSpec == Init /\ [][ContactsNext]_vars

\* ================================================================ properties
\* The row of the first user with that email, NoUser when there is none.
UserRow(email) ==
    LET i == get_user_by_email(email, users) IN
    IF i = 0 THEN NoUser ELSE users[i]

DecoderOps == {"get_current_user", "decode_refresh_token", "get_email_from_token"}

ExpectedScope(op) ==
    CASE op = "get_current_user" -> "access_token"
      [] op = "decode_refresh_token" -> "refresh_token"
      [] op = "get_email_from_token" -> "email_token"
      [] OTHER -> ""

\* What the caller of a token endpoint sees as an error.
IsError(r) == r.status >= 400 /\ r.access_token = NoToken /\ r.refresh_token = NoToken

\* C1: a token made by one of the three issuers is accepted only by the
\* decoder of its own scope; presented to either other decoder it is rejected
\* with an error and yields no subject.
C1_ScopesAreDisjointLanes ==
    resp.op \in DecoderOps =>
        /\ resp.status = 200 => resp.token.scope = ExpectedScope(resp.op)
        /\ resp.token.scope # ExpectedScope(resp.op) =>
               IsError(resp) /\ resp.email = ""

\* An unexpired access token has been presented to decode_refresh_token.
C1_Witness ==
    /\ resp.op = "decode_refresh_token"
    /\ resp.token.scope = "access_token"
    /\ resp.at < resp.token.exp
    /\ resp.status = 401

\* C2: decoding with the issuing scope returns the subject at the moment of
\* issue, and fails once the clock has reached expires_at.
C2_RoundTripUntilExpiry ==
    (resp.op \in DecoderOps /\ resp.token.scope = ExpectedScope(resp.op)) =>
        /\ resp.at = resp.token.iat =>
               resp.status = 200 /\ resp.email = resp.token.sub
        /\ resp.at >= resp.token.exp => IsError(resp)

\* The refresh route would accept this token now.
Accepted(token) == refresh_token_branch(token, users, now) = "rotate"

\* C3: per user at most one refresh token is accepted, the stored one, and
\* every refresh token that a later login or refresh has replaced is rejected.
C3_OnlyTheLatestRefreshTokenIsAccepted ==
    /\ \A e \in Emails : Cardinality({t \in Known : t.sub = e /\ Accepted(t)}) <= 1
    /\ \A t \in Known : Accepted(t) => t = UserRow(t.sub).refresh_token
    /\ \A r \in issued : r.replaced # NoToken => ~Accepted(r.replaced)

\* C4: a refresh token that has been exchanged once is rejected when it is
\* replayed, and after a rejected replay no refresh token of that user is
\* accepted until a login stores a new one.
C4_ReplayIsRejectedAndLogsOut ==
    /\ \A r \in issued : r.op = "refresh_token" => ~Accepted(r.presented)
    /\ (resp.op = "refresh_token" /\ resp.detail = "Invalid refresh token") =>
           /\ UserRow(resp.email).refresh_token = NoToken
           /\ \A t \in Known : t.sub = resp.email => ~Accepted(t)

\* C5: a signed, unexpired, refresh-scoped token that is not the stored one
\* (the stored one may be null) clears the stored token, issues nothing and is
\* answered 401.
C5_MismatchClearsStoredToken ==
    [][ (/\ resp'.op = "refresh_token"
         /\ resp' # resp
         /\ resp'.token.sig = SECRET_KEY
         /\ resp'.token.scope = "refresh_token"
         /\ now < resp'.token.exp
         /\ get_user_by_email(resp'.token.sub, users) # 0
         /\ UserRow(resp'.token.sub).refresh_token # resp'.token)
        => LET i == get_user_by_email(resp'.token.sub, users) IN
           /\ users' = [users EXCEPT ![i].refresh_token = NoToken]
           /\ issued' = issued
           /\ resp'.status = 401
           /\ IsError(resp') ]_vars

\* A refresh token other than the stored one has been presented and the
\* stored one, which was not null, is gone.
C5_Witness ==
    /\ resp.op = "refresh_token"
    /\ resp.status = 401
    /\ resp.detail = "Invalid refresh token"
    /\ UserRow(resp.email).refresh_token = NoToken
    /\ \E r \in issued : r.email = resp.email /\ r.refresh_token # resp.token

\* C6: after a successful refresh presenting R the stored token is the one
\* returned, and R is no longer accepted, whenever the refresh happens.
C6_RotationInvalidatesPresentedToken ==
    (resp.op = "refresh_token" /\ resp.status = 200) =>
        /\ UserRow(resp.email).refresh_token = resp.refresh_token
        /\ ~Accepted(resp.token)

\* C7: every access token was issued to a user confirmed at that moment, and
\* the login of an unconfirmed user is answered 401 "Email is not confirmed"
\* with no token.
C7_NoAccessTokenForUnconfirmed ==
    /\ \A r \in issued : r.confirmed
    /\ (/\ resp.op = "login"
        /\ get_user_by_email(resp.email, users) # 0
        /\ ~UserRow(resp.email).confirmed)
       => /\ resp.status = 401
          /\ resp.detail = "Email is not confirmed"
          /\ IsError(resp)

\* An unconfirmed user has tried to log in with the right password while
\* another user holds tokens.
C7_Witness ==
    /\ resp.op = "login"
    /\ resp.detail = "Email is not confirmed"
    /\ resp.password = plain[resp.email]
    /\ issued # {}

\* C8: the login of an existing, confirmed user with the signup password
\* returns a bearer pair whose subject is the user's email and stores exactly
\* the returned refresh token.
C8_LoginIssuesAndStoresPair ==
    (/\ resp.op = "login"
     /\ get_user_by_email(resp.email, users) # 0
     /\ UserRow(resp.email).confirmed
     /\ resp.password = plain[resp.email])
    => /\ resp.status = 200
       /\ resp.token_type = "bearer"
       /\ resp.access_token.scope = "access_token"
       /\ resp.access_token.sub = UserRow(resp.email).email
       /\ resp.access_token.sig = SECRET_KEY
       /\ resp.refresh_token.scope = "refresh_token"
       /\ resp.refresh_token.sub = UserRow(resp.email).email
       /\ resp.refresh_token.sig = SECRET_KEY
       /\ UserRow(resp.email).refresh_token = resp.refresh_token

\* A login has overwritten a different refresh token stored by an earlier one.
C8_Witness ==
    /\ resp.op = "login"
    /\ resp.status = 200
    /\ \E r \in issued :
          /\ r.op = "login"
          /\ r.refresh_token = resp.refresh_token
          /\ r.replaced # NoToken
          /\ r.replaced # r.refresh_token

\* C9: a login for an unknown email, an unconfirmed user or with a password
\* other than the one signed up with is answered 401, returns no token and
\* leaves the users table and the issued tokens as they were.
C9_FailedLoginChangesNothing ==
    [][ (/\ resp'.op = "login"
         /\ resp' # resp
         /\ \/ get_user_by_email(resp'.email, users) = 0
            \/ ~UserRow(resp'.email).confirmed
            \/ resp'.password # plain[resp'.email])
        => /\ resp'.status = 401
           /\ resp'.detail \in {"Invalid email", "Email is not confirmed",
                                "Invalid password"}
           /\ IsError(resp')
           /\ users' = users
           /\ issued' = issued ]_vars

\* A wrong password has been refused for a user who holds a stored refresh token.
C9_Witness ==
    /\ resp.op = "login"
    /\ resp.status = 401
    /\ resp.detail = "Invalid password"
    /\ UserRow(resp.email).refresh_token # NoToken

\* C10: a signup for an email that already has a user is answered 409, adds no
\* row, schedules no mail and leaves every existing row as it was.
C10_DuplicateSignupIsRefused ==
    [][ (/\ resp'.op = "signup"
         /\ resp' # resp
         /\ get_user_by_email(resp'.email, users) # 0)
        => /\ resp'.status = 409
           /\ users' = users
           /\ tasks' = tasks
           /\ nmail' = nmail ]_vars

\* A second signup has been refused for a confirmed user holding a refresh token.
C10_Witness ==
    /\ resp.op = "signup"
    /\ resp.status = 409
    /\ UserRow(resp.email).confirmed
    /\ UserRow(resp.email).refresh_token # NoToken

\* C11: no two rows of the users table have the same email, however signup
\* requests are interleaved, two requests for one email that both pass the
\* existence check before either inserts included.
C11_EmailIsUnique ==
    \A i, j \in 1..Len(users) : i # j => users[i].email # users[j].email

\* Two signups for one email both passed the check; the second insert was
\* refused and the email has its one row.
C11_Witness ==
    /\ resp.op = "signup"
    /\ resp.status = 400
    /\ get_user_by_email(resp.email, users) # 0

\* C12: a signup for an unused email appends exactly one row, with that email,
\* the bcrypt hash of the submitted password, confirmed false and no refresh
\* token, and schedules exactly one verification mail for it; every
\* verification mail handed over carries an email-scoped token for the
\* recipient of a scheduled mail.
C12_SignupCreatesOneUnconfirmedUser ==
    [][ /\ (/\ resp'.op = "signup"
            /\ resp' # resp
            /\ get_user_by_email(resp'.email, users) = 0)
           => /\ resp'.status = 201
              /\ Len(users') = Len(users) + 1
              /\ SubSeq(users', 1, Len(users)) = users
              /\ LET row == users'[Len(users')] IN
                 /\ row.email = resp'.email
                 /\ row.password.alg = "bcrypt"
                 /\ verify_password(resp'.password, row.password)
                 /\ ~row.confirmed
                 /\ row.refresh_token = NoToken
              /\ tasks' = [tasks EXCEPT ![resp'.email] = @ + 1]
        /\ \A t \in sent' \ sent :
              /\ t.scope = "email_token"
              /\ t.sig = SECRET_KEY
              /\ tasks[t.sub] > 0
              /\ tasks' = [tasks EXCEPT ![t.sub] = @ - 1] ]_vars

\* A user has signed up, is not confirmed yet, and the verification mail for
\* that email has been handed over.
C12_Witness ==
    /\ resp.op = "signup"
    /\ resp.status = 201
    /\ ~UserRow(resp.email).confirmed
    /\ tasks[resp.email] = 0
    /\ \E t \in sent : t.sub = resp.email /\ t.scope = "email_token"

\* A signed, unexpired verification token.
ValidEmailToken(token, t) ==
    token.sig = SECRET_KEY /\ token.scope = "email_token" /\ t < token.exp

\* C13: a confirmation with a valid email-scoped token fails with 400
\* "Verification error" and changes nothing when no user has the subject as
\* email, reports "already confirmed" and changes nothing when the user is
\* confirmed, and otherwise sets the confirmed flag of that user and nothing
\* else.
C13_ConfirmByCase ==
    [][ (/\ resp'.op = "confirmed_email"
         /\ resp' # resp
         /\ ValidEmailToken(resp'.token, now))
        => LET i == get_user_by_email(resp'.token.sub, users) IN
           IF i = 0
           THEN /\ resp'.status = 400
                /\ resp'.detail = "Verification error"
                /\ users' = users
           ELSE IF users[i].confirmed
           THEN /\ resp'.status = 200
                /\ resp'.detail = "Your email is already confirmed"
                /\ users' = users
           ELSE /\ resp'.status = 200
                /\ resp'.detail = "Email was confirmed"
                /\ users' = [users EXCEPT ![i].confirmed = TRUE] ]_vars

\* One of two users has been confirmed while the other, still unconfirmed,
\* is in the table.
C13_Witness ==
    /\ resp.op = "confirmed_email"
    /\ resp.detail = "Email was confirmed"
    /\ UserRow(resp.email).confirmed
    /\ \E i \in 1..Len(users) : users[i].email # resp.email /\ ~users[i].confirmed

\* C14: for a confirmed user every confirmation with a valid token answers
\* 200 "already confirmed" and leaves the users table as it was, so a second
\* confirmation ends in the table the first one left.
C14_ConfirmIsIdempotent ==
    [][ (/\ resp'.op = "confirmed_email"
         /\ resp' # resp
         /\ ValidEmailToken(resp'.token, now)
         /\ UserRow(resp'.token.sub).confirmed)
        => /\ resp'.status = 200
           /\ resp'.detail = "Your email is already confirmed"
           /\ users' = users ]_vars

\* A confirmed user who has logged in since has followed the link again.
C14_Witness ==
    /\ resp.op = "confirmed_email"
    /\ resp.status = 200
    /\ resp.detail = "Your email is already confirmed"
    /\ UserRow(resp.email).refresh_token # NoToken

\* C15: a row enters the users table unconfirmed, and no step of signup,
\* confirmation, login, refresh, request_email or avatar update turns a
\* confirmed flag back to false.
C15_ConfirmedIsMonotonic ==
    [][ /\ Len(users') >= Len(users)
        /\ \A i \in 1..Len(users') :
              IF i <= Len(users)
              THEN users[i].confirmed => users'[i].confirmed
              ELSE ~users'[i].confirmed ]_vars

\* A confirmed user has logged in, refreshed and changed the avatar, and
\* is still confirmed.
C15_Witness ==
    /\ resp.op = "update_avatar"
    /\ UserRow(resp.email).confirmed
    /\ UserRow(resp.email).avatar \in AvatarUrls
    /\ \E r \in issued : r.op = "refresh_token" /\ r.email = resp.email

\* A signed, unexpired access token with a subject.
ValidAccessToken(token, t) ==
    /\ token.sig = SECRET_KEY
    /\ token.scope = "access_token"
    /\ token.sub # ""
    /\ t < token.exp

\* C16: get_current_user returns a user only for a signed, unexpired,
\* access-scoped token with a subject, and that user's email is the subject;
\* a token that fails any of these, and a subject found neither in the cache
\* nor in the table, get 401.
C16_OnlyValidAccessTokensResolve ==
    [][ (resp'.op = "get_current_user" /\ resp' # resp)
        => LET token == resp'.token IN
           /\ resp'.status = 200 =>
                  ValidAccessToken(token, now) /\ resp'.user.email = token.sub
           /\ ~ValidAccessToken(token, now) => resp'.status = 401
           /\ (/\ ValidAccessToken(token, now)
               /\ token.sub \in Emails
               /\ ~r_get(token.sub, now).present
               /\ get_user_by_email(token.sub, users) = 0)
              => resp'.status = 401 ]_vars

\* C17: a resolution with a live cache entry returns the cached snapshot and
\* leaves the cache alone; without one it returns the row of the table and
\* writes it to the cache under that email with 900 seconds to live; with
\* neither an entry nor a row it fails and writes nothing.
C17_ResolutionIsReadThrough ==
    [][ (/\ resp'.op = "get_current_user"
         /\ resp' # resp
         /\ resp'.token.sig = SECRET_KEY
         /\ resp'.token.scope = "access_token"
         /\ resp'.token.sub \in Emails
         /\ now <= resp'.token.exp)
        => LET email == resp'.token.sub
               entry == cache[email]
               row == get_user_by_email(email, users)
           IN
           IF entry.present /\ now < entry.expire_at
           THEN /\ resp'.status = 200
                /\ resp'.user = entry.user
                /\ cache' = cache
           ELSE IF row # 0
           THEN /\ resp'.status = 200
                /\ resp'.user = users[row]
                /\ cache'[email].present
                /\ cache'[email].user = users[row]
                /\ cache'[email].volatile
                /\ cache'[email].expire_at = now + CACHE_TTL
                /\ \A e \in Emails \ {email} : cache'[e] = cache[e]
           ELSE /\ resp'.status = 401
                /\ cache' = cache ]_vars

\* A resolution has returned the cached snapshot of a user whose row has
\* changed since.
C17_Witness ==
    /\ resp.op = "get_current_user"
    /\ resp.status = 200
    /\ cache[resp.email].present
    /\ resp.user = cache[resp.email].user
    /\ resp.user # UserRow(resp.email)
    /\ resp.at > cache[resp.email].read_at

\* C18: a snapshot returned from the cache was read from the table at most
\* 900 seconds before, and returning it does not change the entry.
C18_CacheHitsAreAtMostTtlOld ==
    [][ (/\ resp'.op = "get_current_user"
         /\ resp' # resp
         /\ resp'.status = 200
         /\ resp'.token.sub \in Emails
         /\ r_get(resp'.token.sub, now).present)
        => /\ now - cache[resp'.token.sub].read_at <= CACHE_TTL
           /\ cache' = cache ]_vars

\* C19: a resolution with a valid access token of an existing user returns
\* that user, whether or not the cache can be reached.
C19_CacheFailureNeverFailsResolution ==
    [][ (/\ resp'.op = "get_current_user"
         /\ resp' # resp
         /\ ValidAccessToken(resp'.token, now)
         /\ get_user_by_email(resp'.token.sub, users) # 0)
        => /\ resp'.status = 200
           /\ resp'.user.email = resp'.token.sub ]_vars

\* What a decoder answers to a token whose signature does not verify.
SignatureFailure(op, token, t) ==
    LET forged == [token EXCEPT !.sig = "another key"] IN
    CASE op = "get_current_user" -> get_current_user_decode(forged, t)
      [] op = "decode_refresh_token" -> decode_refresh_token(forged, t)
      [] op = "get_email_from_token" -> get_email_from_token(forged, t)

\* C20: whatever makes a decoder reject a token, the caller gets the status
\* and detail it gets for a signature that does not verify.
C20_DecodeFailuresLookAlike ==
    (resp.op \in DecoderOps /\ resp.status # 200) =>
        /\ resp.status = SignatureFailure(resp.op, resp.token, resp.at).status
        /\ resp.detail = SignatureFailure(resp.op, resp.token, resp.at).detail

\* C22: of two refresh requests presenting the same token, the one that reads
\* the user row after the other has committed its rotation is answered 401.
C22_RefreshAfterCommittedRotationFails ==
    [][ \A w \in Workers :
          (/\ reading[w] # NoRead
           /\ reading'[w] = NoRead
           /\ reading[w].superseded)
          => resp'.status = 401 ]_vars

\* C21: confirmed_email answers a token that is not a signed, unexpired,
\* email-scoped one with 400 and leaves every confirmed flag as it was, and
\* answers any other token with 200.
C21_BadConfirmationTokenGets400 ==
    [][ (resp'.op = "confirmed_email" /\ resp' # resp)
        => IF ValidEmailToken(resp'.token, now)
           THEN resp'.status = 200
           ELSE /\ resp'.status = 400
                /\ Len(users') = Len(users)
                /\ \A i \in 1..Len(users) :
                      users'[i].confirmed = users[i].confirmed ]_vars

\* A signed, unexpired refresh token.
ValidRefreshToken(token, t) ==
    token.sig = SECRET_KEY /\ token.scope = "refresh_token" /\ t < token.exp

\* C23: whatever the identity cache holds, a refresh with a valid token is
\* accepted exactly when the token is the refresh_token of the user's row in
\* the table, and rejected with 401 otherwise.
C23_RefreshIgnoresTheCache ==
    [][ (/\ resp'.op = "refresh_token"
         /\ resp' # resp
         /\ ValidRefreshToken(resp'.token, now)
         /\ get_user_by_email(resp'.token.sub, users) # 0)
        => IF UserRow(resp'.token.sub).refresh_token = resp'.token
           THEN resp'.status = 200
           ELSE resp'.status = 401 ]_vars

\* A refresh has been refused for a token that the cached snapshot of the
\* user still holds as refresh_token.
C23_Witness ==
    /\ resp.op = "refresh_token"
    /\ resp.status = 401
    /\ resp.detail = "Invalid refresh token"
    /\ r_get(resp.email, now).present
    /\ r_get(resp.email, now).user.refresh_token = resp.token

\* C30: the cache changes only by a resolution miss of get_current_user, which
\* writes the entry of the resolved email; confirmation, login, refresh and
\* avatar update leave every entry as it is.
C30_OnlyAResolutionMissWritesTheCache ==
    [][ cache' # cache
        => /\ resp'.op = "get_current_user"
           /\ resp'.status = 200
           /\ ~r_get(resp'.email, now).present
           /\ cache'[resp'.email].present
           /\ cache'[resp'.email].user = UserRow(resp'.email)
           /\ users' = users
           /\ \A e \in Emails \ {resp'.email} : cache'[e] = cache[e] ]_vars

\* After an avatar update a resolution has returned the snapshot from before
\* it.
C30_Witness ==
    /\ resp.op = "get_current_user"
    /\ resp.status = 200
    /\ UserRow(resp.email).avatar \in AvatarUrls
    /\ resp.user.avatar = gravatar(resp.email)
    /\ resp.user = r_get(resp.email, now).user

\* C24: request_email always answers 200 and leaves the users table as it
\* was; it schedules one verification mail when a user with that email exists
\* and is not confirmed, and none for a confirmed user, who is told so, or for
\* an unknown email.
C24_RequestEmailSendsOnlyToUnconfirmed ==
    [][ (resp'.op = "request_email" /\ (resp' # resp \/ nmail' # nmail))
        => LET email == resp'.email
               user == get_user_by_email(email, users)
           IN
           /\ resp'.status = 200
           /\ users' = users
           /\ IF user # 0 /\ ~users[user].confirmed
              THEN tasks' = [tasks EXCEPT ![email] = @ + 1]
              ELSE tasks' = tasks
           /\ (user # 0 /\ users[user].confirmed)
              => resp'.detail = "Your email is already confirmed" ]_vars

\* A confirmed user has asked for the mail again and none is pending.
C24_Witness ==
    /\ resp.op = "request_email"
    /\ resp.status = 200
    /\ UserRow(resp.email).confirmed
    /\ tasks[resp.email] = 0
    /\ resp.detail = "Your email is already confirmed"

\* The mail task about to run is the one the last request_email scheduled.
LastRequestIsFor(token) ==
    /\ resp.op = "request_email"
    /\ resp.email = token.sub
    /\ tasks[token.sub] = 1

RequestedLifetime(delta, default) == IF delta.some THEN delta.v ELSE default

\* C26: a token issued with a ttl expires exactly ttl after its issue, a ttl
\* of 0 included, and a token issued without one expires after the default
\* of its scope (15 minutes, 7 days, 3 days).
C26_ExpiryIsIssuePlusTtl ==
    \A t \in minted :
       /\ \A d \in Deltas :
             /\ t = create_access_token(t.sub, d, t.iat)
                => t.exp = t.iat + RequestedLifetime(d, ACCESS_TOKEN_DEFAULT)
             /\ t = create_refresh_token(t.sub, d, t.iat)
                => t.exp = t.iat + RequestedLifetime(d, REFRESH_TOKEN_DEFAULT)
       /\ t = create_email_token(t.sub, t.iat)
          => t.exp = t.iat + EMAIL_TOKEN_LIFETIME

\* C27: the run of a mail task, delivered or not, leaves the answer given to
\* the request and the users table as they were; a signup is answered 201
\* with its row stored and a request_email 200, whatever became of the mail.
C27_DeliveryDoesNotChangeTheOutcome ==
    [][ /\ (\E e \in Emails : tasks'[e] < tasks[e])
           => /\ resp' = resp
              /\ users' = users
              /\ sent' \in {sent} \cup {sent \cup {t} : t \in Known'}
        /\ (resp'.op = "signup" /\ resp'.status = 201)
           => get_user_by_email(resp'.email, users') # 0
        /\ resp'.op = "request_email" => resp'.status = 200 ]_vars

\* The mail of a signup was not delivered: the signup stays answered 201 and
\* its row stays stored.
C27_Witness ==
    /\ resp.op = "signup"
    /\ resp.status = 201
    /\ tasks[resp.email] = 0
    /\ \A t \in sent : t.sub # resp.email
    /\ get_user_by_email(resp.email, users) # 0
    /\ ~UserRow(resp.email).confirmed

\* C28: login answers with the first check that fails, in the order user
\* exists, email confirmed, password matches; an unconfirmed user is told
\* "Email is not confirmed" with the right password as with a wrong one.
C28_LoginChecksInFixedOrder ==
    [][ (resp'.op = "login" /\ resp' # resp)
        => LET user == get_user_by_email(resp'.email, users)
           IN  IF user = 0
               THEN resp'.status = 401 /\ resp'.detail = "Invalid email"
               ELSE IF ~users[user].confirmed
               THEN resp'.status = 401 /\ resp'.detail = "Email is not confirmed"
               ELSE IF ~verify_password(resp'.password, users[user].password)
               THEN resp'.status = 401 /\ resp'.detail = "Invalid password"
               ELSE resp'.status = 200 ]_vars

\* An unconfirmed user has tried to log in with a password that is not theirs.
C28_Witness ==
    /\ resp.op = "login"
    /\ get_user_by_email(resp.email, users) # 0
    /\ ~UserRow(resp.email).confirmed
    /\ ~verify_password(resp.password, UserRow(resp.email).password)
    /\ resp.detail = "Email is not confirmed"

\* C29: a refresh with a token that is expired or not refresh-scoped is
\* answered 401 and leaves the users table, every stored refresh_token with
\* it, and the issued tokens as they were, also when the expired token is the
\* stored one.
C29_UndecodableRefreshChangesNothing ==
    [][ (/\ resp'.op = "refresh_token"
         /\ resp' # resp
         /\ ~ValidRefreshToken(resp'.token, now))
        => /\ resp'.status = 401
           /\ users' = users
           /\ issued' = issued ]_vars

\* The fields in which two versions of a row differ.
ChangedFields(old, new) == {f \in DOMAIN old : old[f] # new[f]}

\* C31: a step that writes an existing row changes one field of one row:
\* login and refresh set refresh_token to the value given to update_token,
\* confirmed_email sets confirmed to true, update_avatar sets avatar to the
\* given url; id, username, email, password and every other row stay.
C31_MutatorsChangeOneFieldOfOneUser ==
    [][ Len(users') = Len(users)
        => \A i \in 1..Len(users) :
              LET changed == ChangedFields(users[i], users'[i]) IN
              changed # {}
              => /\ \A j \in 1..Len(users) : j # i => users'[j] = users[j]
                 /\ \/ /\ changed = {"refresh_token"}
                       /\ resp'.op \in {"login", "refresh_token"}
                       /\ users'[i].refresh_token
                            = IF resp'.status = 200 THEN resp'.refresh_token
                              ELSE NoToken
                    \/ /\ changed = {"confirmed"}
                       /\ resp'.op = "confirmed_email"
                       /\ users'[i].confirmed
                    \/ /\ changed = {"avatar"}
                       /\ resp'.op = "update_avatar"
                       /\ users'[i].avatar = resp'.user.avatar ]_vars

\* One user has been confirmed, logged in and given a new avatar while the
\* other user's row is still as signup made it.
C31_Witness ==
    /\ Len(users) = 2
    /\ \E i, j \in 1..Len(users) :
          /\ users[i].confirmed
          /\ users[i].refresh_token # NoToken
          /\ users[i].avatar \in AvatarUrls
          /\ users[j] = NewUser(j, users[j].username, users[j].email,
                                users[j].password, gravatar(users[j].email))

\* Two rotations were given the same token, and the later commit overwrote
\* the token of the earlier one: it had read the row before that commit.
BothSucceeded(first, last) ==
    /\ first.op = "refresh_token"
    /\ last.op = "refresh_token"
    /\ first.presented = last.presented
    /\ last.replaced = first.refresh_token
    /\ last.replaced # last.presented

\* C32: a refresh that read the stored token equal to the one presented
\* succeeds whatever was committed since, so two requests that both read
\* before either commits both succeed; each commit leaves its own token
\* stored, so the last one stays; and the token of the earlier commit, when
\* it is another string, is answered 401 once the later one is stored.
C32_ConcurrentRefreshesLastCommitWins ==
    [][ \A w \in Workers :
          (reading[w] # NoRead /\ reading'[w] = NoRead)
          => LET r == reading[w]
                 user == get_user_by_email(r.email, users)
             IN  /\ r.stored = r.token
                    => /\ resp'.status = 200
                       /\ users'[user].refresh_token = resp'.refresh_token
                 /\ \A first, last \in issued :
                       (/\ BothSucceeded(first, last)
                        /\ first.refresh_token # last.refresh_token
                        /\ r.token = first.refresh_token
                        /\ r.stored = last.refresh_token)
                       => resp'.status = 401 ]_vars

\* Both requests succeeded with the same token, the second commit replacing
\* the token of the first, and the first one's token was then refused.
C32_Witness ==
    /\ resp.op = "refresh_token"
    /\ resp.status = 401
    /\ \E first, last \in issued :
          /\ BothSucceeded(first, last)
          /\ first.refresh_token # last.refresh_token
          /\ resp.token = first.refresh_token

\* C33: a user whose email is not confirmed has no stored refresh token; a
\* row gets a refresh token only from a login or a refresh answered 200, and
\* only when it is confirmed.
C33_UnconfirmedUserHasNoRefreshToken ==
    [][ \A i \in 1..Len(users') :
          /\ ~users'[i].confirmed => users'[i].refresh_token = NoToken
          /\ (/\ users'[i].refresh_token # NoToken
              /\ \/ i > Len(users)
                 \/ users'[i].refresh_token # users[i].refresh_token)
             => /\ i <= Len(users)
                /\ users[i].confirmed
                /\ resp'.op \in {"login", "refresh_token"}
                /\ resp'.status = 200
                /\ resp'.refresh_token = users'[i].refresh_token ]_vars

\* An unconfirmed user was refused a login with the right password and has
\* no stored token, while the other user, confirmed, has one.
C33_Witness ==
    /\ resp.op = "login"
    /\ resp.status = 401
    /\ resp.password = plain[resp.email]
    /\ ~UserRow(resp.email).confirmed
    /\ UserRow(resp.email).refresh_token = NoToken
    /\ \E i \in 1..Len(users) :
          users[i].confirmed /\ users[i].refresh_token # NoToken

\* C34: the subject of every refresh token handed out is the email of a row
\* of the users table, so no refresh gets past the decode to find no user.
C34_RefreshSubjectIsAnExistingUser ==
    /\ \A r \in issued :
          /\ r.refresh_token.scope = "refresh_token"
          /\ get_user_by_email(r.refresh_token.sub, users) # 0
    /\ \A t \in Known :
          /\ t.scope = "refresh_token" => get_user_by_email(t.sub, users) # 0
          /\ refresh_token_branch(t, users, now) # "no_user"
    /\ resp.op = "refresh_token" => resp.status # 500

\* A refresh decoded its token and found the user, one of two in the table.
C34_Witness ==
    /\ resp.op = "refresh_token"
    /\ resp.status = 200
    /\ Len(users) = 2
    /\ get_user_by_email(resp.token.sub, users) # 0
    /\ resp.token.scope = "refresh_token"

\* C35: get_current_user resolves every signed, unexpired access token of an
\* existing user to that user, whatever the row's refresh_token is at that
\* moment: cleared after a replay, or replaced by a login or a refresh.
C35_AccessTokensOutliveTheRefreshToken ==
    [][ (/\ resp'.op = "get_current_user"
         /\ resp' # resp
         /\ ValidAccessToken(resp'.token, now)
         /\ get_user_by_email(resp'.token.sub, users) # 0)
        => /\ resp'.status = 200
           /\ resp'.user.email = resp'.token.sub
           /\ users' = users ]_vars

\* An access token was resolved after a replayed refresh token had cleared
\* the stored refresh token of its user.
C35_Witness ==
    /\ resp.op = "get_current_user"
    /\ resp.status = 200
    /\ resp.token \in {r.access_token : r \in issued}
    /\ UserRow(resp.token.sub).refresh_token = NoToken

\* C36: every entry of the identity cache has a time to live that ends no
\* later than 900 seconds after the entry was written.
C36_EveryCacheEntryHasATtl ==
    \A e \in DOMAIN cache :
       cache[e].present
       => /\ cache[e].volatile
          /\ cache[e].expire_at <= cache[e].read_at + CACHE_TTL

\* C37: a contact operation returns only contacts of the user it is done
\* for and leaves every contact of another user in the table as it was;
\* update and remove of another user's contact return None and change
\* nothing; the birthday queries return only the asking user's contacts.
C37_ContactOperationsAreScopedToTheUser ==
    [][ result' # result
        => /\ \A c \in result'.rows : c.user_id = result'.user_id
           /\ \A c \in contacts : c.user_id # result'.user_id => c \in contacts'
           /\ (/\ result'.op \in {"update", "remove"}
               /\ \E c \in contacts :
                     c.id = result'.contact_id /\ c.user_id # result'.user_id)
              => /\ result'.rows = {}
                 /\ contacts' = contacts ]_vars

====
